---- MODULE Spec2Model ----
(***************************************************************************)
(* Model of Algorithm.Python/FineFundamentalDataRegressionAlgorithm.py.    *)
(* The host (the Lean engine) calls Initialize once, then OnData once per  *)
(* delivered slice, then OnEndOfAlgorithm.  The host's answers (history    *)
(* result, slice content, security cache, order fill) are inputs chosen    *)
(* nondeterministically from small sets.                                   *)
(***************************************************************************)
EXTENDS Integers, Sequences, FiniteSets, TLC

\* ---------------------------------------------------------------- bounds
\* Largest number of OnData events the host delivers in one run.
MaxEvents == 3
\* Largest EquityPerShareGrowth.OneYear value, in hundredths (0.01 units).
MaxRatio == 2

\* ------------------------------------------------------ program constants
\* History(FineFundamental, fine.Symbol, 10): number of records requested.
HistoryCount == 10
\* The literal 0.01 of the comparison, in hundredths.
Threshold == 1
\* SetHoldings("AAPL", 1): the target fraction.
Fraction == 1

\* self._aaplSecurity.Symbol, the symbol of AddEquity("AAPL", ...).
AAPL == "AAPL"
\* Underlying symbols that the keys of a FineFundamental collection can have.
Underlyings == {AAPL, "SPY"}
\* data.Get(FineFundamental): the collection, as the set of its keys'
\* Underlying symbols (fine.Count is its cardinality).
Slices == SUBSET Underlyings

\* OneYear ratios the cache can hold, in hundredths: below, at, above 0.01.
Ratios == 0..MaxRatio
\* Cache.GetData(FineFundamental) returns None or a FineFundamental record.
None == [kind |-> "None"]
Fine(r) == [kind |-> "FineFundamental", OneYear |-> r]
CacheValues == {None} \cup {Fine(r) : r \in Ratios}

\* An instance attribute that no assignment has created yet.
Unset == "unset"

VARIABLES pc, error, gotFineData, history, Invested, cachedFine, events, directives

vars == <<pc, error, gotFineData, history, Invested, cachedFine, events, directives>>

\* ------------------------------------------------------------ Initialize
\* len(history) == 0  (line 32)
InitializeRaises_Short(historyLen) == historyLen < HistoryCount
InitializeRaises(historyLen) == historyLen = 0

\* Initialize assigns self._aaplSecurity and nothing else on self: the
\* attribute _gotFineData does not exist when it returns.
FlagAfterInitialize == Unset

Init ==
    /\ pc = "new"
    /\ error = "none"
    /\ gotFineData = Unset
    /\ history = 0
    /\ Invested = FALSE
    /\ cachedFine = None
    /\ events = <<>>
    /\ directives = <<>>

Initialize ==
    /\ pc = "new"
    /\ \E n \in 0..HistoryCount :
        /\ history' = n
        /\ IF InitializeRaises(n)
             THEN /\ pc' = "aborted"
                  /\ error' = "EmptyHistoryError"
             ELSE /\ pc' = "initialized"
                  /\ error' = "none"
    /\ gotFineData' = FlagAfterInitialize
    /\ UNCHANGED <<Invested, cachedFine, events, directives>>

\* ---------------------------------------------------------------- OnData
\* fine.Count > 0 and self._aaplSecurity.Symbol in
\*   [fineSymbol.Underlying for fineSymbol in fine.Keys]   (line 42)
SliceHasFine(slice) == Cardinality(slice) > 0 /\ AAPL \in slice

\* lines 42-43: the only assignment to the flag, always the value True.
NextFlag_Overwrite(flag, slice) == IF SliceHasFine(slice) THEN "True" ELSE "False"
NextFlag(flag, slice) == IF SliceHasFine(slice) THEN "True" ELSE flag

\* lines 45-48: what the second if-statement does.
TradeDecision_Inverted(invested, cached) ==
    IF invested
      THEN IF cached # None /\ cached.OneYear > Threshold THEN "SetHoldings" ELSE "skip"
      ELSE "skip"
TradeDecision_IgnoresInvested(invested, cached) ==
    IF cached # None /\ cached.OneYear > Threshold THEN "SetHoldings" ELSE "skip"
TradeDecision_NonStrict(invested, cached) ==
    IF invested THEN "skip"
    ELSE IF cached # None /\ cached.OneYear >= Threshold THEN "SetHoldings" ELSE "skip"
TradeDecision_NoneDeref(invested, cached) ==
    IF invested THEN "skip"
    ELSE IF cached = None THEN "AttributeError"
    ELSE IF cached.OneYear > Threshold THEN "SetHoldings" ELSE "skip"
TradeDecision(invested, cached) ==
    IF invested THEN "skip"
    ELSE IF cached = None THEN "skip"
    ELSE IF cached.OneYear > Threshold THEN "SetHoldings" ELSE "skip"

\* The whole handler as a function of what it reads.
OnDataResult_FlagOnlyWhenFlat(flag, slice, invested, cached) ==
    [flag |-> IF invested THEN flag ELSE NextFlag(flag, slice),
     decision |-> TradeDecision(invested, cached)]
OnDataResult(flag, slice, invested, cached) ==
    [flag |-> NextFlag(flag, slice),
     decision |-> TradeDecision(invested, cached)]

\* One SetHoldings("AAPL", 1) directive.
Directive == <<AAPL, Fraction>>

OnData ==
    /\ pc = "initialized"
    /\ Len(events) < MaxEvents
    /\ \E slice \in Slices, cached \in CacheValues, filled \in BOOLEAN :
        LET r == OnDataResult(gotFineData, slice, Invested, cached)
            calls == IF r.decision = "SetHoldings" THEN 1 ELSE 0
        IN  /\ cachedFine' = cached
            /\ gotFineData' = r.flag
            /\ directives' = IF calls = 1 THEN Append(directives, Directive) ELSE directives
            /\ Invested' = IF calls = 1 THEN filled ELSE Invested
            /\ (calls = 0 => filled = FALSE)
            /\ events' = Append(events,
                    [slice |-> slice, invested |-> Invested, cached |-> cached,
                     flagBefore |-> gotFineData, flagAfter |-> r.flag,
                     calls |-> calls, raised |-> r.decision = "AttributeError"])
            /\ IF r.decision = "AttributeError"
                 THEN pc' = "aborted" /\ error' = "AttributeError"
                 ELSE UNCHANGED <<pc, error>>
    /\ UNCHANGED history

\* ------------------------------------------------------- OnEndOfAlgorithm
\* if not self._gotFineData: raise ValueError(...)   (lines 51-52)
OnEndOutcome(flag) ==
    IF flag = Unset THEN "AttributeError"
    ELSE IF flag # "True" THEN "NoStreamingDataError"
    ELSE "none"

OnEndOfAlgorithm ==
    /\ pc = "initialized"
    /\ error' = OnEndOutcome(gotFineData)
    /\ pc' = "ended"
    /\ UNCHANGED <<gotFineData, history, Invested, cachedFine, events, directives>>

Next == Initialize \/ OnData \/ OnEndOfAlgorithm

Spec == Init /\ [][Next]_vars

\* ------------------------------------------------------------ properties
\* A delivered slice that is non-empty for FineFundamental and has an entry
\* whose underlying symbol is the subscribed equity's symbol.
Matching(slice) == slice # {} /\ AAPL \in slice
EventIds == DOMAIN events
HighRatio(e) == e.cached # None /\ e.cached.OneYear > Threshold

\* C1: Initialize fails with EmptyHistoryError exactly when the history
\* request returns zero records; for every result of 1..10 records it
\* returns without error.
C1_InitializeFailsIffEmptyHistory ==
    [][pc = "new" =>
         IF history' = 0
           THEN pc' = "aborted" /\ error' = "EmptyHistoryError"
           ELSE pc' = "initialized" /\ error' = "none"]_vars
C1_Witness == pc = "initialized" /\ history = 1 /\ error = "none" /\ events = <<>>

\* C2: in a run where no delivered slice matched, OnEndOfAlgorithm fails
\* with NoStreamingDataError and with no other kind of error.
C2_NoMatchMeansNoStreamingDataError ==
    (pc = "ended" /\ ~(\E i \in EventIds : Matching(events[i].slice)))
        => error = "NoStreamingDataError"

\* C3: on every OnData event with no position held and a cached record whose
\* OneYear ratio is strictly greater than 0.01, exactly one SetHoldings
\* directive is issued, whatever the slice holds.
C3_ExactlyOneDirective ==
    \A i \in EventIds :
        (~events[i].invested /\ HighRatio(events[i])) => events[i].calls = 1
C3_Witness ==
    \E i \in EventIds :
        /\ ~events[i].invested /\ HighRatio(events[i])
        /\ events[i].slice = {}
        /\ events[i].calls = 1
        /\ Len(directives) >= 1

\* C4: while the host reports a position as open, no OnData event issues a
\* SetHoldings directive, whatever the cached ratio is.
C4_NoDirectiveWhileInvested ==
    \A i \in EventIds : events[i].invested => events[i].calls = 0
C4_Witness ==
    \E i \in EventIds :
        events[i].invested /\ HighRatio(events[i]) /\ events[i].calls = 0

\* C5: the comparison is strict: with no position held and a cached ratio of
\* exactly 0.01 or below, no SetHoldings directive is issued.
C5_StrictThreshold ==
    \A i \in EventIds :
        (/\ ~events[i].invested
         /\ events[i].cached # None
         /\ events[i].cached.OneYear <= Threshold) => events[i].calls = 0
C5_Witness ==
    \E i \in EventIds :
        /\ ~events[i].invested
        /\ events[i].cached = Fine(Threshold)
        /\ events[i].calls = 0

\* C6: the flag is true iff some slice delivered so far matched, and it is
\* set-only: no OnData event takes it from true to anything else.
C6_FlagIffMatchedAndSetOnly ==
    /\ (gotFineData = "True") <=> (\E i \in EventIds : Matching(events[i].slice))
    /\ \A i \in EventIds :
           events[i].flagBefore = "True" => events[i].flagAfter = "True"
C6_Witness ==
    \E i, j \in EventIds :
        /\ i < j
        /\ Matching(events[i].slice)
        /\ ~Matching(events[j].slice)
        /\ gotFineData = "True"

\* C8: with no position held and no cached record (None), no SetHoldings
\* directive is issued and the event raises nothing, even when the slice
\* itself holds matching fine data.
C8_NoCacheNoDirectiveNoError ==
    \A i \in EventIds :
        (~events[i].invested /\ events[i].cached = None)
            => (events[i].calls = 0 /\ ~events[i].raised)
C8_Witness ==
    \E i \in EventIds :
        /\ ~events[i].invested /\ events[i].cached = None
        /\ Matching(events[i].slice)
        /\ events[i].calls = 0
        /\ pc = "initialized"

\* C9: the flag update depends only on the slice (and the flag), the trade
\* decision only on isInvested() and the cached record; in particular a
\* matching slice sets the flag while a position is open.
C9_IndependentChecks ==
    /\ \A i, j \in EventIds :
        /\ (events[i].slice = events[j].slice
              /\ events[i].flagBefore = events[j].flagBefore)
                => events[i].flagAfter = events[j].flagAfter
        /\ (events[i].invested = events[j].invested
              /\ events[i].cached = events[j].cached)
                => events[i].calls = events[j].calls
    /\ \A i \in EventIds :
        (events[i].invested /\ Matching(events[i].slice))
            => events[i].flagAfter = "True"
C9_Witness ==
    \E i, j \in EventIds :
        /\ events[j].invested /\ Matching(events[j].slice)
        /\ events[j].flagBefore = Unset /\ events[j].flagAfter = "True"
        /\ ~events[i].invested /\ events[i].cached = events[j].cached
        /\ events[i].calls = 1 /\ events[j].calls = 0

\* C10: after Initialize returns successfully the flag always holds a
\* boolean, so OnEndOfAlgorithm reads an initialised field.
C10_FlagDefinedAfterInitialize ==
    pc \in {"initialized", "ended"} => gotFineData \in {"True", "False"}

====
